---- MODULE Spec2Model ----
(***************************************************************************)
(* Employee management backend: the SQLite employees table (Database), the *)
(* EmployeeService request flows that call it, and the requests clients    *)
(* issue.  Every database statement is one atomic step; a service method   *)
(* is a chain of awaited statements, so other requests may run between two *)
(* statements of the same request.                                         *)
(*                                                                         *)
(* Employee management frontend: the fields of                             *)
(* EmployeeManagementComponent (ui) and what the browser holds for it      *)
(* (browser): pending timers and HTTP exchanges.  Every event handler and  *)
(* every callback runs to completion as one step.                          *)
(*                                                                         *)
(* Strings are sequences of one-character strings, so that trim,           *)
(* toLowerCase and LIKE are computed character by character.               *)
(***************************************************************************)
EXTENDS Integers, Sequences, FiniteSets, TLC

VARIABLES employees, lastID, now, client, ui, browser

vars == <<employees, lastID, now, client, ui, browser>>

(***************************************************************************)
(* Bounds of the model.                                                    *)
(***************************************************************************)
\* number of rows ever inserted (AUTOINCREMENT values handed out)
MaxId == 2
\* number of one-second ticks of CURRENT_TIMESTAMP
MaxClock == 1
\* concurrent HTTP requests in flight
NumClients == 2

Clients == 1..NumClients
\* the single caller of the sequential specification
SeqClients == {1}
\* HTTP exchanges the page has open at a time
MaxInFlight == 2
\* timer handles the browser hands out
MaxTimers == 2

(***************************************************************************)
(* JavaScript string helpers used by EmployeeService.                      *)
(***************************************************************************)
UpperChars == <<"A", "B", "C", "D", "E", "X">>
LowerChars == <<"a", "b", "c", "d", "e", "x">>

\* String.prototype.toLowerCase on one character
ToLowerChar(ch) ==
    IF \E i \in DOMAIN UpperChars : UpperChars[i] = ch
    THEN LowerChars[CHOOSE i \in DOMAIN UpperChars : UpperChars[i] = ch]
    ELSE ch

\* String.prototype.toLowerCase
ToLowerCase(s) == [i \in DOMAIN s |-> ToLowerChar(s[i])]

IsSpace(ch) == ch = " "

RECURSIVE TrimStart(_)
TrimStart(s) ==
    IF s # <<>> /\ IsSpace(Head(s)) THEN TrimStart(Tail(s)) ELSE s

RECURSIVE TrimEnd(_)
TrimEnd(s) ==
    IF s # <<>> /\ IsSpace(s[Len(s)])
    THEN TrimEnd(SubSeq(s, 1, Len(s) - 1))
    ELSE s

\* String.prototype.trim
Trim(s) == TrimEnd(TrimStart(s))

(***************************************************************************)
(* Optional values (undefined in the source) are sets with at most one     *)
(* element.                                                                *)
(***************************************************************************)
Undefined == {}
Some(v) == {v}
IsDefined(o) == o # {}
ValueOf(o) == CHOOSE v \in o : TRUE

\* JavaScript truthiness of an optional string / an optional number
TruthyString(o) == IsDefined(o) /\ ValueOf(o) # <<>>
\* variant: a supplied zero counts as supplied
TruthyNumberZeroSupplied(o) == IsDefined(o)

\* if (searchParams?.limit), if (searchParams?.offset): a number passes the
\* test unless it is undefined or 0
TruthyNumber(o) == IsDefined(o) /\ ValueOf(o) # 0

(***************************************************************************)
(* The employees table.  A row is a record                                 *)
(*   [id, name, email, position, phone, created_at, updated_at];           *)
(* employees is the set of stored rows, lastID the AUTOINCREMENT counter   *)
(* (sqlite_sequence), now the value CURRENT_TIMESTAMP yields (seconds).    *)
(***************************************************************************)
Fields == {"name", "email", "position", "phone"}

\* variant: the email column declared without UNIQUE
UniqueEmailNeverFails(table, email, selfId) == FALSE

\* variant: the constraint also counts the row being updated itself
UniqueEmailFailsOnSelf(table, email, selfId) ==
    \E r \in table : r.email = email

\* the UNIQUE constraint on employees.email (BINARY collation): another row
\* already holds this exact email
UniqueEmailFails(table, email, selfId) ==
    \E r \in table : r.email = email /\ r.id # selfId

\* variant: id INTEGER PRIMARY KEY without AUTOINCREMENT, the new rowid is
\* one more than the largest rowid stored at the moment
DbCreateEmployeeReuseRowid(table, seqno, t, employee) ==
    LET rowid == IF table = {} THEN 1
                 ELSE 1 + (CHOOSE i \in {r.id : r \in table} :
                              \A r \in table : r.id <= i)
    IN  IF UniqueEmailFails(table, employee.email, 0)
        THEN [rejected |-> TRUE, id |-> 0, table |-> table, seqno |-> seqno]
        ELSE [rejected |-> FALSE,
              id |-> rowid,
              seqno |-> rowid,
              table |-> table \cup
                  {[id |-> rowid,
                    name |-> employee.name,
                    email |-> employee.email,
                    position |-> employee.position,
                    phone |-> employee.phone,
                    created_at |-> t,
                    updated_at |-> t]}]

\* INSERT INTO employees (name, email, position, phone) VALUES (?, ?, ?, ?)
\* resolves with this.lastID, or rejects with the engine's error
DbCreateEmployee(table, seqno, t, employee) ==
    IF UniqueEmailFails(table, employee.email, 0)
    THEN [rejected |-> TRUE, id |-> 0, table |-> table, seqno |-> seqno]
    ELSE [rejected |-> FALSE,
          id |-> seqno + 1,
          seqno |-> seqno + 1,
          table |-> table \cup
              {[id |-> seqno + 1,
                name |-> employee.name,
                email |-> employee.email,
                position |-> employee.position,
                phone |-> employee.phone,
                created_at |-> t,
                updated_at |-> t]}]

\* SELECT * FROM employees WHERE id = ?   (row or null)
DbGetEmployeeById(table, id) == {r \in table : r.id = id}

\* variant: the SET clause without updated_at = CURRENT_TIMESTAMP
UpdatedRowStaleTimestamp(r, updates, t) ==
    [id |-> r.id,
     name |-> IF "name" \in DOMAIN updates THEN updates["name"] ELSE r.name,
     email |-> IF "email" \in DOMAIN updates THEN updates["email"] ELSE r.email,
     position |-> IF "position" \in DOMAIN updates
                  THEN updates["position"] ELSE r.position,
     phone |-> IF "phone" \in DOMAIN updates THEN updates["phone"] ELSE r.phone,
     created_at |-> r.created_at,
     updated_at |-> r.updated_at]

\* the row after UPDATE ... SET <named fields>, updated_at = CURRENT_TIMESTAMP
UpdatedRow(r, updates, t) ==
    [id |-> r.id,
     name |-> IF "name" \in DOMAIN updates THEN updates["name"] ELSE r.name,
     email |-> IF "email" \in DOMAIN updates THEN updates["email"] ELSE r.email,
     position |-> IF "position" \in DOMAIN updates
                  THEN updates["position"] ELSE r.position,
     phone |-> IF "phone" \in DOMAIN updates THEN updates["phone"] ELSE r.phone,
     created_at |-> r.created_at,
     updated_at |-> t]

\* variant: no early return for an empty update set, the statement only
\* refreshes updated_at
DbUpdateEmployeeNoEmptyCheck(table, t, id, updates) ==
    IF /\ \E r \in table : r.id = id
       /\ "email" \in DOMAIN updates
       /\ UniqueEmailFails(table, updates["email"], id)
    THEN [rejected |-> TRUE, changed |-> FALSE, table |-> table]
    ELSE [rejected |-> FALSE,
          changed |-> \E r \in table : r.id = id,
          table |-> {IF r.id = id THEN UpdatedRow(r, updates, t) ELSE r :
                     r \in table}]

\* variant: resolve(true) once the statement ran, without this.changes
DbUpdateEmployeeAlwaysTrue(table, t, id, updates) ==
    IF DOMAIN updates = {}
    THEN [rejected |-> FALSE, changed |-> FALSE, table |-> table]
    ELSE IF /\ \E r \in table : r.id = id
            /\ "email" \in DOMAIN updates
            /\ UniqueEmailFails(table, updates["email"], id)
    THEN [rejected |-> TRUE, changed |-> FALSE, table |-> table]
    ELSE [rejected |-> FALSE,
          changed |-> TRUE,
          table |-> {IF r.id = id THEN UpdatedRow(r, updates, t) ELSE r :
                     r \in table}]

\* Database.updateEmployee: resolves true/false (this.changes > 0) or rejects
DbUpdateEmployee(table, t, id, updates) ==
    IF DOMAIN updates = {}
    THEN [rejected |-> FALSE, changed |-> FALSE, table |-> table]
    ELSE IF /\ \E r \in table : r.id = id
            /\ "email" \in DOMAIN updates
            /\ UniqueEmailFails(table, updates["email"], id)
    THEN [rejected |-> TRUE, changed |-> FALSE, table |-> table]
    ELSE [rejected |-> FALSE,
          changed |-> \E r \in table : r.id = id,
          table |-> {IF r.id = id THEN UpdatedRow(r, updates, t) ELSE r :
                     r \in table}]

\* variant: resolve(true) without looking at this.changes
DbDeleteEmployeeAlwaysTrue(table, id) ==
    [changed |-> TRUE,
     table |-> {r \in table : r.id # id}]

\* DELETE FROM employees WHERE id = ?   resolves this.changes > 0
DbDeleteEmployee(table, id) ==
    [changed |-> \E r \in table : r.id = id,
     table |-> {r \in table : r.id # id}]

(***************************************************************************)
(* SQLite LIKE: % matches any run of characters, _ any one character, and  *)
(* letters compare without regard to case.                                 *)
(***************************************************************************)
RECURSIVE LikeMatch(_, _)
LikeMatch(pattern, str) ==
    IF pattern = <<>> THEN str = <<>>
    ELSE IF Head(pattern) = "%"
    THEN \/ LikeMatch(Tail(pattern), str)
         \/ (str # <<>> /\ LikeMatch(pattern, Tail(str)))
    ELSE /\ str # <<>>
         /\ \/ Head(pattern) = "_"
            \/ ToLowerChar(Head(pattern)) = ToLowerChar(Head(str))
         /\ LikeMatch(Tail(pattern), Tail(str))

\* const searchTerm = `%${searchParams.query}%`
SearchTerm(query) == <<"%">> \o query \o <<"%">>

\* (name LIKE ? OR email LIKE ? OR phone LIKE ?) with the three parameters
LikeAnyColumn(searchTerm, r) ==
    \/ LikeMatch(searchTerm, r.name)
    \/ LikeMatch(searchTerm, r.email)
    \/ LikeMatch(searchTerm, r.phone)

\* the WHERE clause getEmployees assembles (conditions joined by AND)
GetEmployeesWhere(params, r) ==
    /\ TruthyString(params.query) =>
          LikeAnyColumn(SearchTerm(ValueOf(params.query)), r)
    /\ TruthyString(params.position) => r.position = ValueOf(params.position)

\* variant: the count query without the position condition
GetEmployeeCountWhereNoPosition(params, r) ==
    TruthyString(params.query) =>
        LikeAnyColumn(SearchTerm(ValueOf(params.query)), r)

\* the WHERE clause getEmployeeCount assembles (conditions joined by AND)
GetEmployeeCountWhere(params, r) ==
    /\ TruthyString(params.query) =>
          LikeAnyColumn(SearchTerm(ValueOf(params.query)), r)
    /\ TruthyString(params.position) => r.position = ValueOf(params.position)

\* SELECT COUNT(*) as count FROM employees [WHERE ...]
DbGetEmployeeCount(table, params) ==
    Cardinality({r \in table : GetEmployeeCountWhere(params, r)})

\* ORDER BY created_at DESC: every arrangement of the rows with created_at
\* non-increasing; the engine leaves the order of equal keys open
OrderByCreatedAtDesc(rows) ==
    {s \in [1..Cardinality(rows) -> rows] :
        /\ \A i, j \in DOMAIN s : i # j => s[i] # s[j]
        /\ \A i, j \in DOMAIN s : i < j => s[i].created_at >= s[j].created_at}

\* LIMIT n OFFSET k applied to an ordered row list (negative n: no cap,
\* negative k: no skip)
LimitOffset(s, n, k) ==
    LET skip == IF k < 0 THEN 0 ELSE k
        rest == SubSeq(s, skip + 1, Len(s))
    IN  IF n < 0 \/ n >= Len(rest) THEN rest ELSE SubSeq(rest, 1, n)

\* an OFFSET clause without a LIMIT clause is not a statement SQLite accepts
DbGetEmployeesRejects(params) ==
    TruthyNumber(params.offset) /\ ~TruthyNumber(params.limit)

\* Database.getEmployees: the row lists the statement may resolve with
DbGetEmployees(table, params) ==
    LET matching == {r \in table : GetEmployeesWhere(params, r)}
    IN  {IF TruthyNumber(params.limit)
         THEN LimitOffset(s, ValueOf(params.limit),
                          IF TruthyNumber(params.offset)
                          THEN ValueOf(params.offset) ELSE 0)
         ELSE s :
         s \in OrderByCreatedAtDesc(matching)}

(***************************************************************************)
(* Validation middleware (validateCreateEmployee, validateUpdateEmployee). *)
(* A body is a function from the field names it carries to strings.        *)
(***************************************************************************)
Digits == {"0", "1", "2", "3", "4", "5", "6", "7", "8", "9"}
NonZeroDigits == Digits \ {"0"}

\* phone.replace(/[\s\-\(\)]/g, "")
RECURSIVE StripPhone(_)
StripPhone(s) ==
    IF s = <<>> THEN <<>>
    ELSE IF Head(s) \in {" ", "-", "(", ")"}
    THEN StripPhone(Tail(s))
    ELSE <<Head(s)>> \o StripPhone(Tail(s))

\* /^[\+]?[1-9][\d]{0,15}$/ on an already stripped string
MatchesPhoneRegex(s) ==
    LET digits == IF s # <<>> /\ Head(s) = "+" THEN Tail(s) ELSE s
    IN  /\ Len(digits) >= 1
        /\ Len(digits) <= 16
        /\ digits[1] \in NonZeroDigits
        /\ \A i \in 2..Len(digits) : digits[i] \in Digits

\* isValidPhone of the validation middleware
IsValidPhone(phone) == MatchesPhoneRegex(StripPhone(phone))

\* isValidEmail: /^[^\s@]+@[^\s@]+\.[^\s@]+$/
IsValidEmail(email) ==
    /\ \A i \in DOMAIN email : ~IsSpace(email[i])
    /\ Cardinality({i \in DOMAIN email : email[i] = "@"}) = 1
    /\ LET at == CHOOSE i \in DOMAIN email : email[i] = "@"
       IN  /\ at > 1
           /\ \E dot \in (at + 2)..(Len(email) - 1) : email[dot] = "."

\* the decimal digits in order, so that DigitSeq[d + 1] is the digit d
DigitSeq == <<"0", "1", "2", "3", "4", "5", "6", "7", "8", "9">>
DigitValue(ch) == CHOOSE d \in 0..9 : DigitSeq[d + 1] = ch

\* the value of a run of decimal digits
RECURSIVE DigitsValue(_)
DigitsValue(s) ==
    IF s = <<>> THEN 0
    ELSE 10 * DigitsValue(SubSeq(s, 1, Len(s) - 1)) + DigitValue(s[Len(s)])

\* the longest prefix of s made of decimal digits
RECURSIVE DigitPrefix(_)
DigitPrefix(s) ==
    IF s = <<>> \/ Head(s) \notin Digits THEN <<>>
    ELSE <<Head(s)>> \o DigitPrefix(Tail(s))

\* parseInt(string): leading white space is skipped, an optional sign and
\* the longest run of decimal digits are read, anything after it is ignored;
\* no digit at all gives NaN (Undefined here)
ParseInt(s) ==
    LET t == TrimStart(s)
        signed == t # <<>> /\ Head(t) \in {"+", "-"}
        rest == IF signed THEN Tail(t) ELSE t
        digits == DigitPrefix(rest)
    IN  IF digits = <<>> THEN Undefined
        ELSE IF signed /\ Head(t) = "-" THEN Some(0 - DigitsValue(digits))
        ELSE Some(DigitsValue(digits))

ValidationOk == ""

\* validateEmployeeId: the error of the 400 answer, or ValidationOk when
\* next() is called
ValidateEmployeeId(segment) ==
    IF ParseInt(segment) = Undefined THEN "Invalid employee ID"
    ELSE ValidationOk

\* isValidString: typeof value === "string" && value.trim().length > 0
IsValidString(value) == Trim(value) # <<>>

\* !value of a destructured body field: undefined or the empty string
Missing(body, f) == f \notin DOMAIN body \/ body[f] = <<>>

\* validateCreateEmployee: the error of the 400 answer, or ValidationOk when
\* next() is called
ValidateCreateEmployee(body) ==
    IF \E f \in Fields : Missing(body, f) THEN "Missing required fields"
    ELSE IF ~IsValidString(body["name"]) THEN "Invalid name"
    ELSE IF ~IsValidString(body["email"]) THEN "Invalid email"
    ELSE IF ~IsValidEmail(body["email"]) THEN "Invalid email format"
    ELSE IF ~IsValidString(body["position"]) THEN "Invalid position"
    ELSE IF ~IsValidString(body["phone"]) THEN "Invalid phone"
    ELSE IF ~IsValidPhone(body["phone"]) THEN "Invalid phone number"
    ELSE ValidationOk

\* validateUpdateEmployee: the error of the 400 answer, or ValidationOk when
\* next() is called
ValidateUpdateEmployee(body) ==
    IF \A f \in Fields : f \notin DOMAIN body THEN "No data to update"
    ELSE IF "name" \in DOMAIN body /\ ~IsValidString(body["name"])
    THEN "Invalid name"
    ELSE IF "email" \in DOMAIN body /\ ~IsValidString(body["email"])
    THEN "Invalid email"
    ELSE IF "email" \in DOMAIN body /\ ~IsValidEmail(body["email"])
    THEN "Invalid email format"
    ELSE IF "position" \in DOMAIN body /\ ~IsValidString(body["position"])
    THEN "Invalid position"
    ELSE IF "phone" \in DOMAIN body /\ ~IsValidString(body["phone"])
    THEN "Invalid phone"
    ELSE IF "phone" \in DOMAIN body /\ ~IsValidPhone(body["phone"])
    THEN "Invalid phone number"
    ELSE ValidationOk

(***************************************************************************)
(* Requests.  client[c] is the request client c has in flight:             *)
(*   pc      where the service method stands ("idle": none, "done": the    *)
(*           method has returned or thrown)                                *)
(*   op      the service method                                            *)
(*   id      the id argument, or the id createEmployee got back            *)
(*   body    the request body as received                                  *)
(*   data    the trimmed / lower-cased data handed to the database         *)
(*   params  the search parameters                                         *)
(*   rows    the employee(s) read so far / returned                        *)
(*   total   totalCount                                                    *)
(*   err     the message of the Error thrown ("": none)                    *)
(*   invalid the error of the 400 answer of the validation middleware      *)
(*           ("": next() was called)                                       *)
(*   segment the id path segment of the request as received               *)
(*   resolved the boolean a direct Database.updateEmployee or              *)
(*           Database.deleteEmployee call resolved with                    *)
(***************************************************************************)
NoParams ==
    [query |-> Undefined, position |-> Undefined,
     limit |-> Undefined, offset |-> Undefined]

Idle ==
    [pc |-> "idle", op |-> "none", id |-> 0, body |-> <<>>, data |-> <<>>,
     params |-> NoParams, rows |-> <<>>, total |-> 0, err |-> "",
     invalid |-> ValidationOk, resolved |-> FALSE, segment |-> <<>>]

\* messages of the errors the service and the engine raise
ErrUnique == "SQLITE_CONSTRAINT: UNIQUE constraint failed: employees.email"
ErrSyntax == "SQLITE_ERROR: near \"OFFSET\": syntax error"
ErrCreateRead == "Failed to retrieve created employee"
ErrNotExist == "Employee with ID does not exist"
ErrNoData == "No data to update"
ErrNotUpdated == "Employee could not be updated"
ErrUpdateRead == "Failed to retrieve updated employee"
ErrNotDeleted == "Employee could not be deleted"

\* a row list holding the row read by id, empty for null
RowList(found) == IF found = {} THEN <<>> ELSE <<CHOOSE r \in found : TRUE>>

\* variant: the email is trimmed but not lower-cased
CreateDataKeepCase(body) ==
    [name |-> Trim(body.name),
     email |-> Trim(body.email),
     position |-> Trim(body.position),
     phone |-> Trim(body.phone)]

\* variant: the phone is stored as received
CreateDataNoTrim(body) ==
    [name |-> Trim(body.name),
     email |-> ToLowerCase(Trim(body.email)),
     position |-> Trim(body.position),
     phone |-> body.phone]

\* EmployeeService.createEmployee: the record handed to database.createEmployee
CreateData(body) ==
    [name |-> Trim(body.name),
     email |-> ToLowerCase(Trim(body.email)),
     position |-> Trim(body.position),
     phone |-> Trim(body.phone)]

\* EmployeeService.updateEmployee: updateData built from the defined fields
UpdateData(body) ==
    [f \in DOMAIN body |->
        IF f = "email" THEN ToLowerCase(Trim(body[f])) ELSE Trim(body[f])]

(***************************************************************************)
(* EmployeeManagementComponent as constructed.  An optional value is a set *)
(* (null: {}), an object with optional members a function on the members  *)
(* it has ({}: <<>>).                                                      *)
(*   searchTimeout  the handle setTimeout returned last (0: never set)     *)
(* browser:                                                                *)
(*   started   ngOnInit has run                                            *)
(*   timers    handles of the pending timeouts                             *)
(*   http      the open HTTP exchanges in the order they were sent         *)
(*   typeError a callback was ended by reading a member of null            *)
(***************************************************************************)
\* resetNewEmployeeForm: { name: "", email: "", position: "", phone: "" }
BlankEmployee ==
    [name |-> <<>>, email |-> <<>>, position |-> <<>>, phone |-> <<>>]

UiInit ==
    [employees |-> <<>>,
     filteredEmployees |-> <<>>,
     searchQuery |-> <<>>,
     isLoading |-> FALSE,
     searchTimeout |-> 0,
     showAddModal |-> FALSE,
     showEditModal |-> FALSE,
     showDeleteModal |-> FALSE,
     selectedEmployee |-> {},
     newEmployee |-> BlankEmployee,
     editEmployee |-> <<>>]

BrowserInit ==
    [started |-> FALSE, timers |-> {}, http |-> <<>>, typeError |-> FALSE]

(***************************************************************************)
(* Initial state: the table just created by initializeTables, no request,  *)
(* the component constructed.                                              *)
(***************************************************************************)
Init ==
    /\ employees = {}
    /\ lastID = 0
    /\ now = 0
    /\ client = [c \in Clients |-> Idle]
    /\ ui = UiInit
    /\ browser = BrowserInit

\* CURRENT_TIMESTAMP advances by one second
Tick ==
    /\ now < MaxClock
    /\ now' = now + 1
    /\ UNCHANGED <<employees, lastID, client>>
    /\ UNCHANGED <<ui, browser>>

(***************************************************************************)
(* POST /api/employees: validateCreateEmployee, then                       *)
(* EmployeeService.createEmployee                                          *)
(***************************************************************************)
\* the middleware answers 400, or calls next() and the service runs
\* await database.createEmployee({...trimmed fields...})
CreateInsert(c, body) ==
    /\ client[c].pc = "idle"
    /\ IF ValidateCreateEmployee(body) # ValidationOk
       THEN /\ client' = [client EXCEPT ![c] =
                   [Idle EXCEPT !.op = "create", !.body = body, !.pc = "done",
                                !.invalid = ValidateCreateEmployee(body)]]
            /\ UNCHANGED <<employees, lastID>>
       ELSE LET data == CreateData(body)
                res == DbCreateEmployee(employees, lastID, now, data)
            IN  /\ res.rejected \/ lastID < MaxId
                /\ employees' = res.table
                /\ lastID' = res.seqno
                /\ client' = [client EXCEPT ![c] =
                       [Idle EXCEPT !.op = "create", !.body = body,
                                    !.data = data, !.id = res.id,
                                    !.pc = IF res.rejected THEN "done"
                                           ELSE "create_read",
                                    !.err = IF res.rejected THEN ErrUnique
                                            ELSE ""]]
    /\ UNCHANGED now
    /\ UNCHANGED <<ui, browser>>

\* const newEmployee = await database.getEmployeeById(employeeId)
CreateRead(c) ==
    /\ client[c].pc = "create_read"
    /\ LET found == DbGetEmployeeById(employees, client[c].id)
       IN  client' = [client EXCEPT ![c].pc = "done",
                                    ![c].rows = RowList(found),
                                    ![c].err = IF found = {} THEN ErrCreateRead
                                               ELSE ""]
    /\ UNCHANGED <<employees, lastID, now>>
    /\ UNCHANGED <<ui, browser>>

(***************************************************************************)
(* PUT /api/employees/:id: validateEmployeeId, validateUpdateEmployee, then*)
(* the controller's parseInt(req.params.id) and                            *)
(* EmployeeService.updateEmployee                                          *)
(***************************************************************************)
\* the middleware answers 400, or calls next() and the service runs its
\* existence check, prepares updateData and checks it for emptiness
UpdateCheck(c, segment, body) ==
    /\ client[c].pc = "idle"
    /\ IF ValidateEmployeeId(segment) # ValidationOk
       THEN client' = [client EXCEPT ![c] =
                [Idle EXCEPT !.op = "update", !.segment = segment,
                             !.body = body, !.pc = "done",
                             !.invalid = ValidateEmployeeId(segment)]]
       ELSE IF ValidateUpdateEmployee(body) # ValidationOk
       THEN client' = [client EXCEPT ![c] =
                [Idle EXCEPT !.op = "update", !.segment = segment,
                             !.id = ValueOf(ParseInt(segment)), !.body = body,
                             !.pc = "done",
                             !.invalid = ValidateUpdateEmployee(body)]]
       ELSE LET id == ValueOf(ParseInt(segment))
                found == DbGetEmployeeById(employees, id)
                data == UpdateData(body)
                err == IF found = {} THEN ErrNotExist
                       ELSE IF DOMAIN data = {} THEN ErrNoData ELSE ""
            IN  client' = [client EXCEPT ![c] =
                    [Idle EXCEPT !.op = "update", !.segment = segment,
                                 !.id = id, !.body = body,
                                 !.data = data, !.err = err,
                                 !.pc = IF err = "" THEN "update_write"
                                        ELSE "done"]]
    /\ UNCHANGED <<employees, lastID, now>>
    /\ UNCHANGED <<ui, browser>>

\* const updated = await database.updateEmployee(id, updateData)
UpdateWrite(c) ==
    /\ client[c].pc = "update_write"
    /\ LET res == DbUpdateEmployee(employees, now, client[c].id, client[c].data)
           err == IF res.rejected THEN ErrUnique
                  ELSE IF ~res.changed THEN ErrNotUpdated ELSE ""
       IN  /\ employees' = res.table
           /\ client' = [client EXCEPT ![c].err = err,
                                       ![c].pc = IF err = "" THEN "update_read"
                                                 ELSE "done"]
    /\ UNCHANGED <<lastID, now>>
    /\ UNCHANGED <<ui, browser>>

\* const updatedEmployee = await database.getEmployeeById(id)
UpdateRead(c) ==
    /\ client[c].pc = "update_read"
    /\ LET found == DbGetEmployeeById(employees, client[c].id)
       IN  client' = [client EXCEPT ![c].pc = "done",
                                    ![c].rows = RowList(found),
                                    ![c].err = IF found = {} THEN ErrUpdateRead
                                               ELSE ""]
    /\ UNCHANGED <<employees, lastID, now>>
    /\ UNCHANGED <<ui, browser>>

(***************************************************************************)
(* EmployeeService.deleteEmployee                                          *)
(***************************************************************************)
DeleteCheck(c, segment) ==
    /\ client[c].pc = "idle"
    /\ IF ValidateEmployeeId(segment) # ValidationOk
       THEN client' = [client EXCEPT ![c] =
                [Idle EXCEPT !.op = "delete", !.segment = segment,
                             !.pc = "done",
                             !.invalid = ValidateEmployeeId(segment)]]
       ELSE LET id == ValueOf(ParseInt(segment))
                found == DbGetEmployeeById(employees, id)
            IN  client' = [client EXCEPT ![c] =
                    [Idle EXCEPT !.op = "delete", !.segment = segment,
                                 !.id = id,
                                 !.pc = IF found = {} THEN "done"
                                        ELSE "delete_write",
                                 !.err = IF found = {} THEN ErrNotExist
                                         ELSE ""]]
    /\ UNCHANGED <<employees, lastID, now>>
    /\ UNCHANGED <<ui, browser>>

\* const deleted = await database.deleteEmployee(id)
DeleteWrite(c) ==
    /\ client[c].pc = "delete_write"
    /\ LET res == DbDeleteEmployee(employees, client[c].id)
       IN  /\ employees' = res.table
           /\ client' = [client EXCEPT ![c].pc = "done",
                                       ![c].err = IF res.changed THEN ""
                                                  ELSE ErrNotDeleted]
    /\ UNCHANGED <<lastID, now>>
    /\ UNCHANGED <<ui, browser>>

(***************************************************************************)
(* EmployeeService.getEmployeeById                                         *)
(***************************************************************************)
GetById(c, segment) ==
    /\ client[c].pc = "idle"
    /\ IF ValidateEmployeeId(segment) # ValidationOk
       THEN client' = [client EXCEPT ![c] =
                [Idle EXCEPT !.op = "get", !.segment = segment, !.pc = "done",
                             !.invalid = ValidateEmployeeId(segment)]]
       ELSE LET id == ValueOf(ParseInt(segment))
            IN  client' = [client EXCEPT ![c] =
                    [Idle EXCEPT !.op = "get", !.segment = segment,
                                 !.id = id, !.pc = "done",
                                 !.rows = RowList(DbGetEmployeeById(employees,
                                                                    id))]]
    /\ UNCHANGED <<employees, lastID, now>>
    /\ UNCHANGED <<ui, browser>>

(***************************************************************************)
(* EmployeeService.getEmployees                                            *)
(***************************************************************************)
\* const employees = await database.getEmployees(searchParams)
ListRows(c, params) ==
    /\ client[c].pc = "idle"
    /\ IF DbGetEmployeesRejects(params)
       THEN client' = [client EXCEPT ![c] =
                [Idle EXCEPT !.op = "list", !.params = params, !.pc = "done",
                             !.err = ErrSyntax]]
       ELSE \E result \in DbGetEmployees(employees, params) :
                client' = [client EXCEPT ![c] =
                    [Idle EXCEPT !.op = "list", !.params = params,
                                 !.pc = "list_count", !.rows = result]]
    /\ UNCHANGED <<employees, lastID, now>>
    /\ UNCHANGED <<ui, browser>>

\* const totalCount = await database.getEmployeeCount(searchParams)
ListCount(c) ==
    /\ client[c].pc = "list_count"
    /\ client' = [client EXCEPT
           ![c].pc = "done",
           ![c].total = DbGetEmployeeCount(employees, client[c].params)]
    /\ UNCHANGED <<employees, lastID, now>>
    /\ UNCHANGED <<ui, browser>>

(***************************************************************************)
(* Direct calls of the Database methods, as the repository's own callers   *)
(* and tests make them; each call is one statement.                        *)
(***************************************************************************)
\* await database.createEmployee(employee)
RepoCreate(c, employee) ==
    /\ client[c].pc = "idle"
    /\ LET res == DbCreateEmployee(employees, lastID, now, employee)
       IN  /\ res.rejected \/ lastID < MaxId
           /\ employees' = res.table
           /\ lastID' = res.seqno
           /\ client' = [client EXCEPT ![c] =
                  [Idle EXCEPT !.op = "db_create", !.data = employee,
                               !.id = res.id, !.pc = "done",
                               !.err = IF res.rejected THEN ErrUnique ELSE ""]]
    /\ UNCHANGED now
    /\ UNCHANGED <<ui, browser>>

\* await database.updateEmployee(id, updates)
RepoUpdate(c, id, updates) ==
    /\ client[c].pc = "idle"
    /\ LET res == DbUpdateEmployee(employees, now, id, updates)
       IN  /\ employees' = res.table
           /\ client' = [client EXCEPT ![c] =
                  [Idle EXCEPT !.op = "db_update", !.id = id,
                               !.data = updates, !.pc = "done",
                               !.resolved = res.changed,
                               !.err = IF res.rejected THEN ErrUnique ELSE ""]]
    /\ UNCHANGED <<lastID, now>>
    /\ UNCHANGED <<ui, browser>>

\* await database.deleteEmployee(id)
RepoDelete(c, id) ==
    /\ client[c].pc = "idle"
    /\ LET res == DbDeleteEmployee(employees, id)
       IN  /\ employees' = res.table
           /\ client' = [client EXCEPT ![c] =
                  [Idle EXCEPT !.op = "db_delete", !.id = id, !.pc = "done",
                               !.resolved = res.changed]]
    /\ UNCHANGED <<lastID, now>>
    /\ UNCHANGED <<ui, browser>>

\* the response has been sent; the client may issue its next request
Respond(c) ==
    /\ client[c].pc = "done"
    /\ client' = [client EXCEPT ![c] = Idle]
    /\ UNCHANGED <<employees, lastID, now>>
    /\ UNCHANGED <<ui, browser>>

(***************************************************************************)
(* The HTTP answer of a finished request r: the 400 answer of the          *)
(* validation middleware, or the answer EmployeeController builds from     *)
(* what the service returned or threw.                                     *)
(***************************************************************************)
\* error.message.includes(...) over the messages the service and the
\* engine raise
IncludesUniqueConstraintFailed(message) == message = ErrUnique
IncludesDoesNotExist(message) == message = ErrNotExist
IncludesNoDataToUpdate(message) == message = ErrNoData

\* the message the validation middleware sends with each error
ValidationMessage(error) ==
    CASE error = "Missing required fields" ->
             "Name, email, position, and phone are required"
      [] error = "No data to update" ->
             "Please provide at least one field to update"
      [] error = "Invalid employee ID" -> "Employee ID must be a number"
      [] error = "Invalid name" -> "Name must be a non-empty string"
      [] error = "Invalid email" -> "Email must be a non-empty string"
      [] error = "Invalid email format" ->
             "Please provide a valid email address"
      [] error = "Invalid position" -> "Position must be a non-empty string"
      [] error = "Invalid phone" -> "Phone must be a non-empty string"
      [] error = "Invalid phone number" ->
             "Please provide a valid phone number"

Answer(status, error, message) ==
    [status |-> status, success |-> status \in {200, 201},
     error |-> error, message |-> message]

\* variant: createEmployee and updateEmployee without the branch for
\* "UNIQUE constraint failed"
HttpResponseNoConflict(r) ==
    IF r.invalid # ValidationOk
    THEN Answer(400, r.invalid, ValidationMessage(r.invalid))
    ELSE CASE r.op = "list" ->
                 IF r.err = ""
                 THEN Answer(200, "", "Employees retrieved successfully")
                 ELSE Answer(500, "Failed to fetch employees", r.err)
           [] r.op = "get" ->
                 IF r.rows = <<>>
                 THEN Answer(404, "Employee not found", ErrNotExist)
                 ELSE Answer(200, "", "Employee retrieved successfully")
           [] r.op = "create" ->
                 IF r.err = ""
                 THEN Answer(201, "", "Employee created successfully")
                 ELSE Answer(500, "Failed to create employee", r.err)
           [] r.op = "update" ->
                 IF r.err = ""
                 THEN Answer(200, "", "Employee updated successfully")
                 ELSE IF IncludesDoesNotExist(r.err)
                 THEN Answer(404, "Employee not found", r.err)
                 ELSE IF IncludesNoDataToUpdate(r.err)
                 THEN Answer(400, "No data to update", r.err)
                 ELSE Answer(500, "Failed to update employee", r.err)
           [] r.op = "delete" ->
                 IF r.err = ""
                 THEN Answer(200, "", "Employee deleted successfully")
                 ELSE IF IncludesDoesNotExist(r.err)
                 THEN Answer(404, "Employee not found", r.err)
                 ELSE Answer(500, "Failed to delete employee", r.err)

\* variant: updateEmployee and deleteEmployee without the branch for
\* "does not exist", getEmployeeById without the null test
HttpResponseNoNotFound(r) ==
    IF r.invalid # ValidationOk
    THEN Answer(400, r.invalid, ValidationMessage(r.invalid))
    ELSE CASE r.op = "list" ->
                 IF r.err = ""
                 THEN Answer(200, "", "Employees retrieved successfully")
                 ELSE Answer(500, "Failed to fetch employees", r.err)
           [] r.op = "get" ->
                 Answer(200, "", "Employee retrieved successfully")
           [] r.op = "create" ->
                 IF r.err = ""
                 THEN Answer(201, "", "Employee created successfully")
                 ELSE IF IncludesUniqueConstraintFailed(r.err)
                 THEN Answer(409, "Email already exists",
                             "An employee with this email already exists")
                 ELSE Answer(500, "Failed to create employee", r.err)
           [] r.op = "update" ->
                 IF r.err = ""
                 THEN Answer(200, "", "Employee updated successfully")
                 ELSE IF IncludesUniqueConstraintFailed(r.err)
                 THEN Answer(409, "Email already exists",
                             "An employee with this email already exists")
                 ELSE IF IncludesNoDataToUpdate(r.err)
                 THEN Answer(400, "No data to update", r.err)
                 ELSE Answer(500, "Failed to update employee", r.err)
           [] r.op = "delete" ->
                 IF r.err = ""
                 THEN Answer(200, "", "Employee deleted successfully")
                 ELSE Answer(500, "Failed to delete employee", r.err)

\* the status and the success, error and message members of the answer
HttpResponse(r) ==
    IF r.invalid # ValidationOk
    THEN Answer(400, r.invalid, ValidationMessage(r.invalid))
    ELSE CASE r.op = "list" ->
                 IF r.err = ""
                 THEN Answer(200, "", "Employees retrieved successfully")
                 ELSE Answer(500, "Failed to fetch employees", r.err)
           [] r.op = "get" ->
                 IF r.rows = <<>>
                 THEN Answer(404, "Employee not found", ErrNotExist)
                 ELSE Answer(200, "", "Employee retrieved successfully")
           [] r.op = "create" ->
                 IF r.err = ""
                 THEN Answer(201, "", "Employee created successfully")
                 ELSE IF IncludesUniqueConstraintFailed(r.err)
                 THEN Answer(409, "Email already exists",
                             "An employee with this email already exists")
                 ELSE Answer(500, "Failed to create employee", r.err)
           [] r.op = "update" ->
                 IF r.err = ""
                 THEN Answer(200, "", "Employee updated successfully")
                 ELSE IF IncludesUniqueConstraintFailed(r.err)
                 THEN Answer(409, "Email already exists",
                             "An employee with this email already exists")
                 ELSE IF IncludesDoesNotExist(r.err)
                 THEN Answer(404, "Employee not found", r.err)
                 ELSE IF IncludesNoDataToUpdate(r.err)
                 THEN Answer(400, "No data to update", r.err)
                 ELSE Answer(500, "Failed to update employee", r.err)
           [] r.op = "delete" ->
                 IF r.err = ""
                 THEN Answer(200, "", "Employee deleted successfully")
                 ELSE IF IncludesDoesNotExist(r.err)
                 THEN Answer(404, "Employee not found", r.err)
                 ELSE Answer(500, "Failed to delete employee", r.err)

\* data.pagination of the answer to GET /api/employees
Pagination(r) ==
    LET limit == IF TruthyNumber(r.params.limit) THEN ValueOf(r.params.limit)
                 ELSE r.total
    IN  [total |-> r.total,
         limit |-> limit,
         offset |-> IF TruthyNumber(r.params.offset)
                    THEN ValueOf(r.params.offset) ELSE 0,
         hasMore |-> IF TruthyNumber(r.params.offset)
                     THEN ValueOf(r.params.offset) + limit < r.total
                     ELSE FALSE]

(***************************************************************************)
(* Request inputs.  Names and positions are non-blank, emails have the     *)
(* shape local@domain.tld without white space; BodyBadPhone and            *)
(* PatchBadPhone carry a phone the validation middleware refuses.          *)
(***************************************************************************)
Mail(local) == <<local, "@", "x", ".", "y">>

BodyAl == [name |-> <<"A", "l">>, email |-> Mail("a"),
           position |-> <<"D">>, phone |-> <<"1", "2">>]
\* same address as BodyAl up to letter case, blanks around the other fields
BodyBo == [name |-> <<" ", "B", "o">>, email |-> Mail("A"),
           position |-> <<"E", " ">>, phone |-> <<" ", "3", "4">>]
BodyAl2 == [name |-> <<"A", "l">>, email |-> Mail("b"),
            position |-> <<"D">>, phone |-> <<"1", "2">>]
BodyCy == [name |-> <<"B", "o">>, email |-> Mail("c"),
           position |-> <<"E">>, phone |-> <<"3", "4">>]

\* a phone starting with the digit zero
BodyBadPhone == [name |-> <<"A", "l">>, email |-> Mail("c"),
                 position |-> <<"D">>, phone |-> <<"0", "1">>]

PatchNone == <<>>
PatchName == [f \in {"name"} |-> <<"B", "o", " ">>]
PatchMail == [f \in {"email"} |-> Mail("B")]
PatchMailPos ==
    [f \in {"email", "position"} |->
        IF f = "email" THEN Mail("a") ELSE <<"E">>]
PatchBadPhone == [f \in {"phone"} |-> <<"0", "1">>]
\* ids a request may name: every id the table can hand out
Ids == 1..MaxId

\* the decimal numeral of a natural number
RECURSIVE Numeral(_)
Numeral(n) ==
    IF n < 10 THEN <<DigitSeq[n + 1]>>
    ELSE Numeral(n \div 10) \o <<DigitSeq[(n % 10) + 1]>>

\* id path segments: the numerals of Ids, a numeral followed by a letter,
\* and a segment without digits
IdSegments == {Numeral(i) : i \in Ids}
PathSegments == IdSegments \cup {<<"1", "a">>, <<"a", "1">>}

Queries == {Undefined, Some(<<"a", "l">>), Some(<<"B">>), Some(<<"_">>),
            Some(<<"1">>)}
Positions == {Undefined, Some(<<"D">>)}
\* <<limit, offset>>
Pages == {<<Undefined, Undefined>>, <<Some(1), Some(0)>>, <<Some(1), Some(1)>>,
          <<Undefined, Some(1)>>, <<Some(0), Undefined>>, <<Some(1), Undefined>>,
          <<Undefined, Some(0)>>}

SearchParams(Q, P, LO) ==
    {[query |-> q, position |-> p, limit |-> lo[1], offset |-> lo[2]] :
        q \in Q, p \in P, lo \in LO}

\* inputs of the sequential specification
SeqBodies == {BodyAl, BodyBo, BodyAl2, BodyCy, BodyBadPhone}
SeqPatches == {PatchNone, PatchName, PatchMail, PatchMailPos, PatchBadPhone}
SeqParams == SearchParams({Undefined}, {Undefined, Some(<<"D">>)},
                          {<<Undefined, Undefined>>})

\* inputs of the query specification
QueryBodies == {BodyAl, BodyBo, BodyAl2, BodyCy}
QueryPatches == {PatchName}
QueryParams == SearchParams(Queries, Positions, Pages)

\* inputs of the concurrent specification
ConcBodies == {BodyAl, BodyBo, BodyAl2}
ConcPatches == {PatchMail, PatchMailPos}
ConcParams == SearchParams({Undefined}, {Undefined},
                           {<<Undefined, Undefined>>})

(***************************************************************************)
(* Specifications.                                                         *)
(***************************************************************************)
\* one step of client c's request, with request inputs from the given sets
Step(c, bodies, patches, params, segments) ==
    \/ \E body \in bodies : CreateInsert(c, body)
    \/ CreateRead(c)
    \/ \E segment \in segments, body \in patches :
          UpdateCheck(c, segment, body)
    \/ UpdateWrite(c)
    \/ UpdateRead(c)
    \/ \E segment \in segments : DeleteCheck(c, segment)
    \/ DeleteWrite(c)
    \/ \E segment \in segments : GetById(c, segment)
    \/ \E p \in params : ListRows(c, p)
    \/ ListCount(c)
    \/ Respond(c)

\* concurrent requests: any client may take the next step
Next ==
    \/ Tick
    \/ \E c \in Clients : Step(c, ConcBodies, ConcPatches, ConcParams, IdSegments)

Spec == Init /\ [][Next]_vars

\* one caller issuing requests one after the other
NextSeq ==
    \/ Tick
    \/ \E c \in SeqClients : Step(c, SeqBodies, SeqPatches, SeqParams, IdSegments)

SpecSeq == Init /\ [][NextSeq]_vars

\* one caller searching and paging over the tables it builds
NextQuery ==
    \/ Tick
    \/ \E c \in SeqClients : Step(c, QueryBodies, QueryPatches, QueryParams,
                                  IdSegments)

SpecQuery == Init /\ [][NextQuery]_vars

\* inputs of the path specification
PathBodies == {BodyAl, BodyAl2}
PathPatches == {PatchName}

\* one caller naming ids by well-formed and malformed path segments
NextPath ==
    \/ Tick
    \/ \E c \in SeqClients :
          Step(c, PathBodies, PathPatches, SeqParams, PathSegments)

SpecPath == Init /\ [][NextPath]_vars

\* inputs of the direct Database calls
RepoEmployees == {CreateData(BodyAl), CreateData(BodyAl2), CreateData(BodyCy)}
RepoUpdates == {PatchNone, UpdateData(PatchName), UpdateData(PatchMailPos)}

\* one caller using the Database object directly
NextRepo ==
    \/ Tick
    \/ \E c \in SeqClients :
          \/ \E employee \in RepoEmployees : RepoCreate(c, employee)
          \/ \E id \in Ids, updates \in RepoUpdates : RepoUpdate(c, id, updates)
          \/ \E id \in Ids : RepoDelete(c, id)
          \/ Respond(c)

SpecRepo == Init /\ [][NextRepo]_vars

(***************************************************************************)
(* The page: EmployeeManagementComponent, the frontend EmployeeService it  *)
(* calls, and the server behind it.  An HTTP exchange is                   *)
(*   kind    "load" (getEmployees()), "search", "create", "update",        *)
(*           "delete"                                                      *)
(*   query, id, body   what the request carries                            *)
(*   state   "sent", then "answered" once the server has handled it        *)
(*   status, rows      the answer: HTTP status and the employee(s) in data *)
(*   superseded        a later search was sent after this one (history)    *)
(***************************************************************************)
Exchange(kind, query, id, body) ==
    [kind |-> kind, query |-> query, id |-> id, body |-> body,
     state |-> "sent", status |-> 0, rows |-> <<>>, superseded |-> FALSE]

\* subscribe(): the request goes out; it joins the open exchanges
Send(http, x) ==
    Append([i \in DOMAIN http |->
               IF x.kind = "search" /\ http[i].kind = "search"
               THEN [http[i] EXCEPT !.superseded = TRUE]
               ELSE http[i]],
           x)

\* the sequence s without its element at position i
RemoveAt(s, i) == SubSeq(s, 1, i - 1) \o SubSeq(s, i + 1, Len(s))

ServerAnswer(status, rows, table, seqno) ==
    [status |-> status, rows |-> rows, table |-> table, seqno |-> seqno]

\* the server handling request x on the table as it stands: the answers it
\* may give, each with the table and id counter it leaves
ServerAnswers(table, seqno, t, x) ==
    CASE x.kind \in {"load", "search"} ->
             LET params == [NoParams EXCEPT
                               !.query = IF x.kind = "search"
                                         THEN Some(x.query) ELSE Undefined]
             IN  {ServerAnswer(200, rows, table, seqno) :
                     rows \in DbGetEmployees(table, params)}
      [] x.kind = "create" ->
             LET res == DbCreateEmployee(table, seqno, t, CreateData(x.body))
             IN  IF ValidateCreateEmployee(x.body) # ValidationOk
                 THEN {ServerAnswer(400, <<>>, table, seqno)}
                 ELSE IF res.rejected
                 THEN {ServerAnswer(409, <<>>, table, seqno)}
                 ELSE {ServerAnswer(201,
                                    RowList(DbGetEmployeeById(res.table,
                                                              res.id)),
                                    res.table, res.seqno)}
      [] x.kind = "update" ->
             LET res == DbUpdateEmployee(table, t, x.id, UpdateData(x.body))
             IN  IF ValidateUpdateEmployee(x.body) # ValidationOk
                 THEN {ServerAnswer(400, <<>>, table, seqno)}
                 ELSE IF DbGetEmployeeById(table, x.id) = {}
                 THEN {ServerAnswer(404, <<>>, table, seqno)}
                 ELSE IF res.rejected
                 THEN {ServerAnswer(409, <<>>, table, seqno)}
                 ELSE {ServerAnswer(200,
                                    RowList(DbGetEmployeeById(res.table, x.id)),
                                    res.table, seqno)}
      [] x.kind = "delete" ->
             IF DbGetEmployeeById(table, x.id) = {}
             THEN {ServerAnswer(404, <<>>, table, seqno)}
             ELSE {ServerAnswer(200, <<>>,
                                DbDeleteEmployee(table, x.id).table, seqno)}

\* the server handles the open request at position i and answers it
Serve(i) ==
    /\ i \in DOMAIN browser.http
    /\ browser.http[i].state = "sent"
    /\ \E answer \in ServerAnswers(employees, lastID, now, browser.http[i]) :
          /\ answer.seqno <= MaxId
          /\ employees' = answer.table
          /\ lastID' = answer.seqno
          /\ browser' = [browser EXCEPT !.http[i].state = "answered",
                                        !.http[i].status = answer.status,
                                        !.http[i].rows = answer.rows]
    /\ UNCHANGED <<now, client, ui>>

\* ngOnInit: loadEmployees()
NgOnInit ==
    /\ ~browser.started
    /\ ui' = [ui EXCEPT !.isLoading = TRUE]
    /\ browser' = [browser EXCEPT
           !.started = TRUE,
           !.http = Send(browser.http, Exchange("load", <<>>, 0, <<>>))]
    /\ UNCHANGED <<employees, lastID, now, client>>

\* this.filteredEmployees = [...this.employees]
ShowAll(u) == [u EXCEPT !.filteredEmployees = u.employees]

\* variant: the query is tested without trim()
SearchBlankNoTrim(q) == q = <<>>

\* !this.searchQuery.trim()
SearchBlank(q) == Trim(q) = <<>>

\* variant: debounceSearch without clearTimeout
ClearTimeoutNothing(timers, handle) == timers

\* clearTimeout(handle): the timeout is no longer pending
ClearTimeout(timers, handle) == timers \ {handle}

\* the handle setTimeout returns: one no pending timeout has
NewHandle(timers) ==
    CHOOSE h \in (1..MaxTimers) \ timers :
        \A g \in (1..MaxTimers) \ timers : h <= g

\* the body searchEmployees and performSearch share: show all for a blank
\* query, else send the search for the trimmed query
SearchNow(u, b) ==
    IF SearchBlank(u.searchQuery)
    THEN /\ ui' = ShowAll(u)
         /\ browser' = b
    ELSE /\ Len(b.http) < MaxInFlight
         /\ ui' = [u EXCEPT !.isLoading = TRUE]
         /\ browser' = [b EXCEPT !.http =
                Send(b.http, Exchange("search", Trim(u.searchQuery), 0, <<>>))]

\* an input event of the search box: the model binding writes searchQuery,
\* then onSearchInput runs (debounceSearch for a non-blank query)
Input(q) ==
    /\ browser.started
    /\ IF SearchBlank(q)
       THEN /\ ui' = ShowAll([ui EXCEPT !.searchQuery = q])
            /\ UNCHANGED browser
       ELSE LET kept == IF ui.searchTimeout # 0
                        THEN ClearTimeout(browser.timers, ui.searchTimeout)
                        ELSE browser.timers
            IN  /\ (1..MaxTimers) \ kept # {}
                /\ ui' = [ui EXCEPT !.searchQuery = q,
                                    !.searchTimeout = NewHandle(kept)]
                /\ browser' = [browser EXCEPT
                       !.timers = kept \cup {NewHandle(kept)}]
    /\ UNCHANGED <<employees, lastID, now, client>>

\* searchEmployees(): the explicit search
SearchEmployees ==
    /\ browser.started
    /\ SearchNow(ui, browser)
    /\ UNCHANGED <<employees, lastID, now, client>>

\* the timeout with handle h expires: performSearch()
TimerFire(h) ==
    /\ h \in browser.timers
    /\ SearchNow(ui, [browser EXCEPT !.timers = browser.timers \ {h}])
    /\ UNCHANGED <<employees, lastID, now, client>>

\* clearSearch()
ClearSearch ==
    /\ browser.started
    /\ ui' = ShowAll([ui EXCEPT !.searchQuery = <<>>])
    /\ UNCHANGED <<employees, lastID, now, client, browser>>

\* EmployeeValidator.validateEmployeeData(employee).isValid
ValidateEmployeeData(employee) ==
    /\ \A f \in Fields : f \in DOMAIN employee /\ Trim(employee[f]) # <<>>
    /\ IsValidEmail(Trim(employee["email"]))
    /\ MatchesPhoneRegex(StripPhone(employee["phone"]))
    /\ Len(StripPhone(employee["phone"])) >= 10

\* the employees the page displays
Displayed == {ui.filteredEmployees[i] : i \in DOMAIN ui.filteredEmployees}

\* openAddModal()
OpenAddModal ==
    /\ browser.started
    /\ ~ui.showAddModal /\ ~ui.showEditModal /\ ~ui.showDeleteModal
    /\ ui' = [ui EXCEPT !.newEmployee = BlankEmployee, !.showAddModal = TRUE]
    /\ UNCHANGED <<employees, lastID, now, client, browser>>

\* closeAddModal()
CloseAddModalOf(u) ==
    [u EXCEPT !.showAddModal = FALSE, !.newEmployee = BlankEmployee]

CloseAddModal ==
    /\ ui.showAddModal
    /\ ui' = CloseAddModalOf(ui)
    /\ UNCHANGED <<employees, lastID, now, client, browser>>

\* the user fills the add form: the model binding writes newEmployee
FillNewEmployee(body) ==
    /\ ui.showAddModal
    /\ ui' = [ui EXCEPT !.newEmployee = body]
    /\ UNCHANGED <<employees, lastID, now, client, browser>>

\* addEmployee(): the add form is submitted
AddEmployee ==
    /\ ui.showAddModal
    /\ IF ~ValidateEmployeeData(ui.newEmployee)
       THEN UNCHANGED <<ui, browser>>
       ELSE /\ Len(browser.http) < MaxInFlight
            /\ ui' = [ui EXCEPT !.isLoading = TRUE]
            /\ browser' = [browser EXCEPT !.http =
                   Send(browser.http,
                        Exchange("create", <<>>, 0, ui.newEmployee))]
    /\ UNCHANGED <<employees, lastID, now, client>>

\* openEditModal(employee) on a displayed employee
OpenEditModal ==
    \E employee \in Displayed :
        /\ browser.started
        /\ ~ui.showAddModal /\ ~ui.showEditModal /\ ~ui.showDeleteModal
        /\ ui' = [ui EXCEPT !.selectedEmployee = {employee},
                            !.editEmployee = [f \in Fields |-> employee[f]],
                            !.showEditModal = TRUE]
        /\ UNCHANGED <<employees, lastID, now, client, browser>>

\* closeEditModal()
CloseEditModalOf(u) ==
    [u EXCEPT !.showEditModal = FALSE, !.selectedEmployee = {},
              !.editEmployee = <<>>]

CloseEditModal ==
    /\ ui.showEditModal
    /\ ui' = CloseEditModalOf(ui)
    /\ UNCHANGED <<employees, lastID, now, client, browser>>

\* the user retypes the name in the edit form: the model binding writes
\* editEmployee.name
EditName(name) ==
    /\ ui.showEditModal
    /\ ui' = [ui EXCEPT !.editEmployee =
                 [f \in DOMAIN ui.editEmployee \cup {"name"} |->
                     IF f = "name" THEN name ELSE ui.editEmployee[f]]]
    /\ UNCHANGED <<employees, lastID, now, client, browser>>

\* updateEmployee(): the edit form is submitted
UpdateEmployee ==
    /\ ui.showEditModal
    /\ IF ui.selectedEmployee = {} \/ ~ValidateEmployeeData(ui.editEmployee)
       THEN UNCHANGED <<ui, browser>>
       ELSE /\ Len(browser.http) < MaxInFlight
            /\ ui' = [ui EXCEPT !.isLoading = TRUE]
            /\ browser' = [browser EXCEPT !.http =
                   Send(browser.http,
                        Exchange("update", <<>>,
                                 ValueOf(ui.selectedEmployee).id,
                                 ui.editEmployee))]
    /\ UNCHANGED <<employees, lastID, now, client>>

\* openDeleteModal(employee) on a displayed employee
OpenDeleteModal ==
    \E employee \in Displayed :
        /\ browser.started
        /\ ~ui.showAddModal /\ ~ui.showEditModal /\ ~ui.showDeleteModal
        /\ ui' = [ui EXCEPT !.selectedEmployee = {employee},
                            !.showDeleteModal = TRUE]
        /\ UNCHANGED <<employees, lastID, now, client, browser>>

\* closeDeleteModal()
CloseDeleteModalOf(u) ==
    [u EXCEPT !.showDeleteModal = FALSE, !.selectedEmployee = {}]

CloseDeleteModal ==
    /\ ui.showDeleteModal
    /\ ui' = CloseDeleteModalOf(ui)
    /\ UNCHANGED <<employees, lastID, now, client, browser>>

\* deleteEmployee(): the deletion is confirmed
DeleteEmployee ==
    /\ ui.showDeleteModal
    /\ IF ui.selectedEmployee = {}
       THEN UNCHANGED <<ui, browser>>
       ELSE /\ Len(browser.http) < MaxInFlight
            /\ ui' = [ui EXCEPT !.isLoading = TRUE]
            /\ browser' = [browser EXCEPT !.http =
                   Send(browser.http,
                        Exchange("delete", <<>>,
                                 ValueOf(ui.selectedEmployee).id, <<>>))]
    /\ UNCHANGED <<employees, lastID, now, client>>

\* the outcome of a subscriber callback: the component it leaves, and
\* whether it was ended by a TypeError
Outcome(u, typeError) == [ui |-> u, typeError |-> typeError]

\* this.employees.findIndex(...) / this.employees.filter(...) evaluate
\* this.selectedEmployee!.id once per element: with selectedEmployee null
\* and a non-empty list the callback ends in a TypeError
ReadsNullSelected(u) == u.selectedEmployee = {} /\ u.employees # <<>>

\* the list with the elements whose id is not the given one
RECURSIVE FilterOutId(_, _)
FilterOutId(s, id) ==
    IF s = <<>> THEN <<>>
    ELSE IF Head(s).id = id THEN FilterOutId(Tail(s), id)
    ELSE <<Head(s)>> \o FilterOutId(Tail(s), id)

\* the next callback of updateEmployee's subscription, data truthy
UpdateNext(u, data) ==
    IF ReadsNullSelected(u) THEN Outcome(u, TRUE)
    ELSE LET found == {i \in DOMAIN u.employees :
                          u.employees[i].id = ValueOf(u.selectedEmployee).id}
             index == CHOOSE i \in found : \A j \in found : i <= j
             replaced == IF found = {} THEN u
                         ELSE [u EXCEPT
                                 !.employees = [u.employees EXCEPT
                                                   ![index] = data],
                                 !.filteredEmployees = [u.employees EXCEPT
                                                           ![index] = data]]
         IN  Outcome([CloseEditModalOf(replaced) EXCEPT !.isLoading = FALSE],
                     FALSE)

\* the next callback of deleteEmployee's subscription, success true
DeleteNext(u) ==
    IF ReadsNullSelected(u) THEN Outcome(u, TRUE)
    ELSE LET rest == IF u.employees = <<>> THEN <<>>
                     ELSE FilterOutId(u.employees,
                                      ValueOf(u.selectedEmployee).id)
         IN  Outcome([CloseDeleteModalOf(
                          [u EXCEPT !.employees = rest,
                                    !.filteredEmployees = rest])
                        EXCEPT !.isLoading = FALSE],
                     FALSE)

\* the subscriber callback that runs when the answer of exchange x arrives:
\* next for a 2xx answer, error otherwise
Callback(u, x) ==
    IF x.status \notin {200, 201}
    THEN Outcome([u EXCEPT !.isLoading = FALSE], FALSE)
    ELSE CASE x.kind = "load" ->
                 Outcome([u EXCEPT !.employees = x.rows,
                                   !.filteredEmployees = x.rows,
                                   !.isLoading = FALSE], FALSE)
           [] x.kind = "search" ->
                 Outcome([u EXCEPT !.filteredEmployees = x.rows,
                                   !.isLoading = FALSE], FALSE)
           [] x.kind = "create" ->
                 Outcome([CloseAddModalOf(
                              [u EXCEPT
                                  !.employees = x.rows \o u.employees,
                                  !.filteredEmployees = x.rows \o u.employees])
                            EXCEPT !.isLoading = FALSE],
                         FALSE)
           [] x.kind = "update" -> UpdateNext(u, x.rows[1])
           [] x.kind = "delete" -> DeleteNext(u)

\* the answer of the open exchange at position i arrives
Deliver(i) ==
    /\ i \in DOMAIN browser.http
    /\ browser.http[i].state = "answered"
    /\ LET outcome == Callback(ui, browser.http[i])
       IN  /\ ui' = outcome.ui
           /\ browser' = [browser EXCEPT
                  !.http = RemoveAt(browser.http, i),
                  !.typeError = browser.typeError \/ outcome.typeError]
    /\ UNCHANGED <<employees, lastID, now, client>>

\* what the user types and submits
UiBodyAl == [name |-> <<"A", "l">>, email |-> Mail("a"),
             position |-> <<"D">>,
             phone |-> <<"1", "2", "3", "4", "5", "6", "7", "8", "9", "0">>]
SearchQueries == {<<>>, <<" ">>, <<"a">>, <<" ", "b">>}
ModalQueries == {<<"b">>}
ModalBodies == {UiBodyAl}
ModalNames == {<<"A", "b">>}

\* the search box against a table other users fill
NextSearch ==
    \/ \E c \in SeqClients, employee \in RepoEmployees : RepoCreate(c, employee)
    \/ \E c \in SeqClients : Respond(c)
    \/ NgOnInit
    \/ \E q \in SearchQueries : Input(q)
    \/ SearchEmployees
    \/ \E h \in 1..MaxTimers : TimerFire(h)
    \/ ClearSearch
    \/ \E i \in 1..MaxInFlight : Serve(i)
    \/ \E i \in 1..MaxInFlight : Deliver(i)

SpecSearch == Init /\ [][NextSearch]_vars

\* adding, editing and deleting while a search may be active; the answers
\* arrive in the order the requests were sent
NextModal ==
    \/ NgOnInit
    \/ \E q \in ModalQueries : Input(q)
    \/ \E h \in 1..MaxTimers : TimerFire(h)
    \/ OpenAddModal
    \/ CloseAddModal
    \/ \E body \in ModalBodies : FillNewEmployee(body)
    \/ AddEmployee
    \/ OpenEditModal
    \/ CloseEditModal
    \/ \E name \in ModalNames : EditName(name)
    \/ UpdateEmployee
    \/ OpenDeleteModal
    \/ CloseDeleteModal
    \/ DeleteEmployee
    \/ Serve(1)
    \/ Deliver(1)

SpecModal == Init /\ [][NextModal]_vars

(***************************************************************************)
(* Properties.                                                             *)
(***************************************************************************)
\* the step in which client c's createEmployee runs its INSERT
CreateInsertStep(c) ==
    /\ client[c].pc = "idle"
    /\ client'[c].op = "create"
    /\ client'[c].invalid = ValidationOk
\* the step in which client c's updateEmployee runs its UPDATE
UpdateWriteStep(c) ==
    client[c].pc = "update_write" /\ client'[c].pc # "update_write"
\* the step in which client c's deleteEmployee runs its DELETE
DeleteWriteStep(c) ==
    client[c].pc = "delete_write" /\ client'[c].pc = "done"

EqualIgnoringCase(a, b) == ToLowerCase(a) = ToLowerCase(b)

\* q occurs in s as a run of consecutive characters, letters compared
\* without regard to case
ContainsIgnoringCase(q, s) ==
    \E i \in 0..(Len(s) - Len(q)) :
        \A k \in 1..Len(q) : ToLowerChar(s[i + k]) = ToLowerChar(q[k])

\* client c holds the answer of a getEmployees call made without limit and
\* without offset
ListedAll(c) ==
    /\ client[c].op = "list"
    /\ client[c].pc = "done"
    /\ client[c].err = ""
    /\ ~IsDefined(client[c].params.limit)
    /\ ~IsDefined(client[c].params.offset)

\* C1: under every interleaving of create, update and delete requests no two
\* stored rows carry the same email
C1_EmailUnique ==
    \A r1, r2 \in employees : r1.email = r2.email => r1 = r2

\* C1 witness: a conflicting write has been rejected while two rows are stored
C1_Witness ==
    \E c \in Clients :
        /\ client[c].pc = "done"
        /\ client[c].err = ErrUnique
        /\ Cardinality(employees) = 2

\* C2: a create whose email equals a stored email up to letter case is
\* rejected with the unique-constraint error and adds no row; a create whose
\* email differs from every stored email is accepted and adds one row
C2_CreateDuplicateEmail ==
    [][\A c \in Clients :
          CreateInsertStep(c) =>
              LET email == client'[c].body.email
              IN  IF \E r \in employees : EqualIgnoringCase(r.email, email)
                  THEN /\ employees' = employees
                       /\ client'[c].pc = "done"
                       /\ client'[c].err = ErrUnique
                  ELSE /\ client'[c].pc = "create_read"
                       /\ client'[c].err = ""
                       /\ Cardinality(employees') = Cardinality(employees) + 1
                       /\ \E r \in employees' \ employees :
                              EqualIgnoringCase(r.email, email)]_vars

\* C2 witness: a create was rejected whose email differs from the stored one
\* in letter case only
C2_Witness ==
    \E c \in Clients :
        /\ client[c].op = "create"
        /\ client[c].pc = "done"
        /\ client[c].err = ErrUnique
        /\ \E r \in employees :
              /\ r.email # client[c].body.email
              /\ EqualIgnoringCase(r.email, client[c].body.email)

\* C3: the record createEmployee reads back by the id the insert returned has
\* the trimmed name, position and phone and the trimmed, lower-cased email of
\* the request
C3_CreateReadRoundTrip ==
    \A c \in Clients :
        (/\ client[c].op = "create"
         /\ client[c].pc = "done"
         /\ client[c].invalid = ValidationOk
         /\ client[c].err = "")
        => /\ Len(client[c].rows) = 1
           /\ client[c].rows[1].id = client[c].id
           /\ client[c].rows[1].name = Trim(client[c].body.name)
           /\ client[c].rows[1].email = ToLowerCase(Trim(client[c].body.email))
           /\ client[c].rows[1].position = Trim(client[c].body.position)
           /\ client[c].rows[1].phone = Trim(client[c].body.phone)

\* C3 witness: a request with blanks and capitals has been created and read
C3_Witness ==
    \E c \in Clients :
        /\ client[c].op = "create"
        /\ client[c].pc = "done"
        /\ client[c].err = ""
        /\ client[c].body = BodyBo
        /\ Len(client[c].rows) = 1
        /\ client[c].rows[1].email # client[c].body.email
        /\ client[c].rows[1].phone # client[c].body.phone

\* C4: a successful update sets exactly the named fields of the row with the
\* given id and its updated_at; id, created_at and the unnamed fields keep
\* their values and every other row is unchanged
C4_UpdateFrame ==
    [][\A c \in Clients :
          (UpdateWriteStep(c) /\ client'[c].pc = "update_read") =>
              LET id == client[c].id
                  data == client[c].data
              IN  /\ \A r \in employees : r.id # id => r \in employees'
                  /\ \A r \in employees' : r.id # id => r \in employees
                  /\ \E old \in employees, new \in employees' :
                        /\ old.id = id
                        /\ new.id = id
                        /\ \A f \in Fields :
                              new[f] = IF f \in DOMAIN data THEN data[f]
                                       ELSE old[f]
                        /\ new.created_at = old.created_at
                        /\ new.updated_at = now
                  /\ Cardinality(employees') = Cardinality(employees)]_vars

\* C4 witness: an update naming only the name went through, one second or
\* more after the row was created, next to a second row
C4_Witness ==
    \E c \in Clients :
        /\ client[c].pc = "update_read"
        /\ DOMAIN client[c].data = {"name"}
        /\ Cardinality(employees) = 2
        /\ \E r \in employees :
              /\ r.id = client[c].id
              /\ r.name = client[c].data["name"]
              /\ r.updated_at > r.created_at

\* C5: an update naming the email of a different stored row is rejected with
\* the unique-constraint error and changes no row; an update naming the
\* row's own email goes through
C5_UpdateDuplicateEmail ==
    [][\A c \in Clients :
          (UpdateWriteStep(c) /\ "email" \in DOMAIN client[c].data) =>
              LET id == client[c].id
                  email == client[c].data["email"]
              IN  /\ (\E r \in employees : r.id # id /\ r.email = email
                         /\ \E own \in employees : own.id = id)
                     => /\ employees' = employees
                        /\ client'[c].pc = "done"
                        /\ client'[c].err = ErrUnique
                  /\ (\E own \in employees : own.id = id /\ own.email = email)
                     => /\ client'[c].pc = "update_read"
                        /\ client'[c].err = ""]_vars

\* C5 witness: an update naming another row's email and a new position was
\* rejected, and the position of its row is still the old one
C5_Witness ==
    \E c \in Clients :
        /\ client[c].op = "update"
        /\ client[c].pc = "done"
        /\ client[c].err = ErrUnique
        /\ "position" \in DOMAIN client[c].data
        /\ \E r \in employees :
              /\ r.id = client[c].id
              /\ r.position # client[c].data["position"]
              /\ r.email # client[c].data["email"]

\* C6: deleting a stored id removes exactly that row, reports success and
\* leaves read-one(id) empty; deleting an id that is not stored reports
\* failure and leaves the table unchanged
C6_Delete ==
    [][\A c \in Clients :
          DeleteWriteStep(c) =>
              LET id == client[c].id
              IN  IF \E r \in employees : r.id = id
                  THEN /\ employees' = {r \in employees : r.id # id}
                       /\ Cardinality(employees') = Cardinality(employees) - 1
                       /\ DbGetEmployeeById(employees', id) = {}
                       /\ client'[c].err = ""
                  ELSE /\ employees' = employees
                       /\ client'[c].err = ErrNotDeleted]_vars

\* C6 witness: of two deletes of the same id one removed the row and the
\* other found none, while another row stayed
C6_Witness ==
    \E c1, c2 \in Clients :
        /\ client[c1].op = "delete" /\ client[c1].pc = "done"
        /\ client[c1].err = ""
        /\ client[c2].op = "delete" /\ client[c2].pc = "done"
        /\ client[c2].err = ErrNotDeleted
        /\ client[c1].id = client[c2].id
        /\ employees # {}
        /\ \A r \in employees : r.id # client[c1].id

\* C7: the total of a list request made without limit and offset equals the
\* number of rows the same request returned, for every filter combination
C7_CountMatchesRows ==
    \A c \in SeqClients : ListedAll(c) => client[c].total = Len(client[c].rows)

\* C7 witness: a request with both filters returned one of two stored rows
C7_Witness ==
    \E c \in SeqClients :
        /\ ListedAll(c)
        /\ IsDefined(client[c].params.query)
        /\ IsDefined(client[c].params.position)
        /\ Cardinality(employees) = 2
        /\ client[c].total = 1
        /\ Len(client[c].rows) = 1

\* the filter C8 states: the query occurs in name, email or phone, and the
\* position is equal
C8_Selected(params, r) ==
    /\ IsDefined(params.query) =>
          \/ ContainsIgnoringCase(ValueOf(params.query), r.name)
          \/ ContainsIgnoringCase(ValueOf(params.query), r.email)
          \/ ContainsIgnoringCase(ValueOf(params.query), r.phone)
    /\ IsDefined(params.position) => r.position = ValueOf(params.position)

\* C8: read-many returns exactly the rows in which the query text occurs as a
\* substring of name, email or phone (letter case disregarded, the reading
\* most favourable to the engine) and whose position equals the filter
C8_SubstringFilter ==
    \A c \in SeqClients :
        ListedAll(c) =>
            {client[c].rows[i] : i \in DOMAIN client[c].rows}
                = {r \in employees : C8_Selected(client[c].params, r)}

\* C9: read-many returns the rows most recently created first, rows created
\* in the same second in the reverse of their insertion order
C9_NewestFirst ==
    \A c \in SeqClients :
        (client[c].op = "list" /\ client[c].pc = "done" /\ client[c].err = "")
        => \A i, j \in DOMAIN client[c].rows :
              i < j =>
                  \/ client[c].rows[i].created_at > client[c].rows[j].created_at
                  \/ /\ client[c].rows[i].created_at
                            = client[c].rows[j].created_at
                     /\ client[c].rows[i].id > client[c].rows[j].id

PageParams(limit, offset) ==
    [query |-> Undefined, position |-> Undefined,
     limit |-> limit, offset |-> offset]

\* C10: over the stored table, every answer to (limit 1, offset 0) and every
\* answer to (limit 1, offset 1) are the first and the second row of every
\* answer to the unpaged request, and differ
C10_PagesAdjacent ==
    Cardinality(employees) >= 2 =>
        \A all \in DbGetEmployees(employees, PageParams(Undefined, Undefined)),
           p0 \in DbGetEmployees(employees, PageParams(Some(1), Some(0))),
           p1 \in DbGetEmployees(employees, PageParams(Some(1), Some(1))) :
            /\ p0 = <<all[1]>>
            /\ p1 = <<all[2]>>
            /\ p0 # p1

\* client c's getEmployees call has come back from the repository's row query
ListReturned(c) ==
    /\ client[c].op = "list"
    /\ client[c].pc \in {"list_count", "done"}

\* the stored rows the filters of params select
MatchingRows(params) == {r \in employees : GetEmployeesWhere(params, r)}

\* the rows of a row list
RowSet(rows) == {rows[i] : i \in DOMAIN rows}

\* C11: a read-many call with a limit returns at most limit rows, whatever
\* the limit; a call with neither limit nor offset returns every matching row
C11_LimitCaps ==
    \A c \in Clients :
        (ListReturned(c) /\ client[c].err = "") =>
            LET p == client[c].params
            IN  /\ IsDefined(p.limit) =>
                      Len(client[c].rows) <= ValueOf(p.limit)
                /\ (~IsDefined(p.limit) /\ ~IsDefined(p.offset)) =>
                      /\ RowSet(client[c].rows) = MatchingRows(p)
                      /\ Len(client[c].rows) = Cardinality(MatchingRows(p))

\* the ordered list s without its first k rows, cut to n rows when a limit
\* is supplied
DropThenTruncate(s, limit, k) ==
    LET rest == SubSeq(s, k + 1, Len(s))
    IN  IF IsDefined(limit) /\ ValueOf(limit) < Len(rest)
        THEN SubSeq(rest, 1, ValueOf(limit))
        ELSE rest

\* C12: a read-many call with an offset k, with or without a limit, succeeds
\* and returns the filtered, ordered list with its first k rows dropped, then
\* truncated to the limit
C12_OffsetDrops ==
    \A c \in Clients :
        (ListReturned(c) /\ IsDefined(client[c].params.offset)) =>
            LET p == client[c].params
            IN  /\ client[c].err = ""
                /\ \E s \in OrderByCreatedAtDesc(MatchingRows(p)) :
                      client[c].rows =
                          DropThenTruncate(s, p.limit, ValueOf(p.offset))

\* C13: a read-many call with offset 0 succeeds and returns what the same
\* call without an offset returns, for every filter and limit: the same rows
\* in the same order, out of the same possible results
C13_OffsetZeroIsNoOffset ==
    \A c \in Clients :
        (ListReturned(c) /\ client[c].params.offset = Some(0)) =>
            LET p == client[c].params
                p0 == [p EXCEPT !.offset = Undefined]
            IN  /\ client[c].err = ""
                /\ ~DbGetEmployeesRejects(p0)
                /\ client[c].rows \in DbGetEmployees(employees, p0)
                /\ DbGetEmployees(employees, p) = DbGetEmployees(employees, p0)

\* C13 witness: a call with offset 0 and no limit returned both stored rows
C13_Witness ==
    \E c \in Clients :
        /\ ListReturned(c)
        /\ client[c].params.offset = Some(0)
        /\ ~IsDefined(client[c].params.limit)
        /\ client[c].err = ""
        /\ Len(client[c].rows) = 2

\* the step in which client c calls Database.updateEmployee directly
RepoUpdateStep(c) == client[c].pc = "idle" /\ client'[c].op = "db_update"
\* the step in which client c calls Database.createEmployee directly
RepoCreateStep(c) == client[c].pc = "idle" /\ client'[c].op = "db_create"

\* C14: update(id, {}) resolves false without an error and leaves the table,
\* updated_at of every row included, as it was
C14_EmptyUpdate ==
    [][\A c \in Clients :
          (RepoUpdateStep(c) /\ DOMAIN client'[c].data = {}) =>
              /\ client'[c].resolved = FALSE
              /\ client'[c].err = ""
              /\ employees' = employees]_vars

\* C14 witness: an empty update of a stored row, written a second earlier,
\* resolved false
C14_Witness ==
    \E c \in Clients :
        /\ client[c].op = "db_update"
        /\ client[c].pc = "done"
        /\ DOMAIN client[c].data = {}
        /\ client[c].resolved = FALSE
        /\ \E r \in employees : r.id = client[c].id /\ r.updated_at < now

\* C15: update(id, fields) with at least one field and an id that is not
\* stored resolves false without an error and leaves the table as it was
C15_UpdateMissingId ==
    [][\A c \in Clients :
          (/\ RepoUpdateStep(c)
           /\ DOMAIN client'[c].data # {}
           /\ ~\E r \in employees : r.id = client'[c].id) =>
              /\ client'[c].resolved = FALSE
              /\ client'[c].err = ""
              /\ employees' = employees]_vars

\* C15 witness: an update naming the email of a stored row was applied to an
\* id that is not stored and resolved false
C15_Witness ==
    \E c \in Clients :
        /\ client[c].op = "db_update"
        /\ client[c].pc = "done"
        /\ "email" \in DOMAIN client[c].data
        /\ ~\E r \in employees : r.id = client[c].id
        /\ \E r \in employees : r.email = client[c].data["email"]
        /\ client[c].resolved = FALSE
        /\ client[c].err = ""

\* C16: the id a create returns is larger than every id returned before, so
\* no later create returns it again, also after its row was deleted: the
\* counter behind the ids never falls, bounds every id handed out so far, and
\* a successful create returns a value above it
C16_IdsNeverReused ==
    [][/\ lastID' >= lastID
       /\ \A r \in employees' : r.id <= lastID'
       /\ \A c \in Clients :
             (RepoCreateStep(c) /\ client'[c].err = "") =>
                 /\ client'[c].id > lastID
                 /\ client'[c].id = lastID'
                 /\ \E r \in employees' : r.id = client'[c].id]_vars

\* C16 witness: after the row with id 1 was deleted a create returned id 2
C16_Witness ==
    \E c \in Clients :
        /\ client[c].op = "db_create"
        /\ client[c].pc = "done"
        /\ client[c].err = ""
        /\ client[c].id = 2
        /\ {r.id : r \in employees} = {2}

ByIdRequestStep(c) ==
    /\ client[c].pc = "idle"
    /\ client'[c].op \in {"get", "update", "delete"}
    /\ ValidateEmployeeId(client'[c].segment) = ValidationOk

\* the request that arrived is answered 404 "Employee not found" at once and
\* nothing is written
AnsweredNotFound(c) ==
    /\ client'[c].pc = "done"
    /\ HttpResponse(client'[c]).status = 404
    /\ HttpResponse(client'[c]).error = "Employee not found"
    /\ employees' = employees

\* the request that arrived is answered 400 "No data to update" at once and
\* nothing is written
AnsweredNoData(c) ==
    /\ client'[c].pc = "done"
    /\ HttpResponse(client'[c]).status = 400
    /\ HttpResponse(client'[c]).error = "No data to update"
    /\ employees' = employees

\* C18 as stated: GET, PUT and DELETE for an id that is not stored answer 404
\* "Employee not found" and change nothing; a PUT for a stored id whose body
\* names none of the four fields answers 400 "No data to update", no write
C18_NotFoundAsStated ==
    [][\A c \in Clients :
          ByIdRequestStep(c) =>
              /\ (~\E r \in employees : r.id = client'[c].id) =>
                     AnsweredNotFound(c)
              /\ (/\ client'[c].op = "update"
                  /\ \E r \in employees : r.id = client'[c].id
                  /\ DOMAIN client'[c].body \cap Fields = {}) =>
                     AnsweredNoData(c)]_vars

\* C18 amended: GET and DELETE for an id that is not stored, and PUT for such
\* an id with a body the validation middleware lets through, answer 404
\* "Employee not found" and change nothing; a PUT whose body names none of
\* the four fields answers 400 "No data to update" without a write, whether
\* or not the id is stored
C18_NotFound ==
    [][\A c \in Clients :
          ByIdRequestStep(c) =>
              /\ (/\ ~\E r \in employees : r.id = client'[c].id
                  /\ client'[c].op = "update" =>
                         ValidateUpdateEmployee(client'[c].body) = ValidationOk)
                 => AnsweredNotFound(c)
              /\ (/\ client'[c].op = "update"
                  /\ DOMAIN client'[c].body \cap Fields = {}) =>
                     AnsweredNoData(c)]_vars

\* C18 witness: a PUT with a valid body for an id that is not stored, while
\* another row is stored, was answered 404
C18_Witness ==
    \E c \in Clients :
        /\ client[c].pc = "done"
        /\ client[c].op = "update"
        /\ ValidateUpdateEmployee(client[c].body) = ValidationOk
        /\ employees # {}
        /\ ~\E r \in employees : r.id = client[c].id
        /\ HttpResponse(client[c]).status = 404

\* C19: pagination.hasMore of a successful list answer equals
\* (offset + limit < total) whenever an offset was supplied, 0 included, and
\* is false when no offset was supplied
C19_HasMore ==
    \A c \in Clients :
        (/\ client[c].op = "list"
         /\ client[c].pc = "done"
         /\ client[c].err = "") =>
            LET p == client[c].params
                page == Pagination(client[c])
                limit == IF IsDefined(p.limit) THEN ValueOf(p.limit)
                         ELSE page.limit
            IN  IF IsDefined(p.offset)
                THEN page.hasMore = (ValueOf(p.offset) + limit < page.total)
                ELSE page.hasMore = FALSE

\* the phone rule as specified: once blanks, dashes and parentheses are
\* stripped, an optional "+", a non-zero digit, at most 15 further digits,
\* and at least 10 characters in all
PhoneAsSpecified(phone) ==
    /\ MatchesPhoneRegex(StripPhone(phone))
    /\ Len(StripPhone(phone)) >= 10

\* C20: a create or update request whose phone breaks the specified rule is
\* answered 400 by the validation and never reaches the handler
C20_PhoneRule ==
    \A c \in Clients :
        (/\ client[c].op \in {"create", "update"}
         /\ "phone" \in DOMAIN client[c].body
         /\ ~PhoneAsSpecified(client[c].body["phone"])) =>
            /\ client[c].pc = "done"
            /\ client[c].invalid # ValidationOk
            /\ HttpResponse(client[c]).status = 400

\* the whole path segment is a decimal numeral and n is the number it denotes
DenotesNumber(segment, n) ==
    /\ segment # <<>>
    /\ \A i \in DOMAIN segment : segment[i] \in Digits
    /\ DigitsValue(segment) = n

\* C21: a request whose id path segment is not numeric is answered 400
\* "Invalid employee ID" without a repository operation; a request reaches
\* the repository with an id only when the whole segment denotes that number
C21_IdSegment ==
    \A c \in Clients :
        (client[c].op \in {"get", "update", "delete"} /\ client[c].pc # "idle")
        =>  IF DenotesNumber(client[c].segment, client[c].id)
            THEN client[c].invalid # "Invalid employee ID"
            ELSE /\ client[c].pc = "done"
                 /\ client[c].invalid = "Invalid employee ID"
                 /\ HttpResponse(client[c]).status = 400

\* the error texts that come from the storage engine itself
EngineErrors == {ErrUnique, ErrSyntax}

\* C22: a request whose storage operation failed with an error other than
\* not-found, unique-constraint violation or empty-update is answered 500
\* and neither error nor message of the answer is the engine's error text
C22_NoRawEngineText ==
    \A c \in Clients :
        (client[c].pc = "done" /\ client[c].err = ErrSyntax) =>
            LET answer == HttpResponse(client[c])
            IN  /\ answer.status = 500
                /\ answer.error \notin EngineErrors
                /\ answer.message \notin EngineErrors

\* C23: in a list request without limit and offset the total reported is the
\* number of employees returned, whatever other requests write between the
\* request's row query and its count query
C23_TotalUnderWrites ==
    \A c \in Clients :
        (/\ client[c].op = "list"
         /\ client[c].pc = "done"
         /\ client[c].err = ""
         /\ client[c].params.limit = Undefined
         /\ client[c].params.offset = Undefined) =>
            HttpResponse(client[c]).status = 200
            /\ Pagination(client[c]).total = Len(client[c].rows)

\* C26: whatever the interleaving of concurrent PUT and DELETE requests, none
\* of them is answered 500
C26_NeverServerError ==
    \A c \in Clients :
        (client[c].pc = "done" /\ client[c].op \in {"update", "delete"}) =>
            HttpResponse(client[c]).status # 500

(***************************************************************************)
(* The search box.                                                         *)
(***************************************************************************)

\* a step that triggers a search: an input event, the explicit search, or
\* the expiry of a debounce timeout
SearchTriggered ==
    \/ \E q \in SearchQueries : Input(q)
    \/ SearchEmployees
    \/ \E h \in 1..MaxTimers : TimerFire(h)

\* C24: a search triggered (input event, explicit search, debounce timeout)
\* while the query is empty or only whitespace sends no request and sets
\* the displayed list to the full employee list.
C24_BlankQueryShowsAll ==
    [][SearchTriggered /\ Trim(ui'.searchQuery) = <<>>
          => /\ browser'.http = browser.http
             /\ ui'.filteredEmployees = ui'.employees]_vars

\* a whitespace-only query was typed after a debounce timeout had run, the
\* full non-empty list is displayed and nothing is on the wire
C24_Witness ==
    /\ ui.searchQuery = <<" ">>
    /\ ui.searchTimeout # 0
    /\ browser.timers = {}
    /\ browser.http = <<>>
    /\ ui.employees # <<>>
    /\ ui.filteredEmployees = ui.employees

\* C25: an input event with a non-blank query cancels the pending timeout
\* and starts a new one without sending anything, at most one timeout is
\* pending at any time, and the expiry of a timeout with a non-blank query
\* sends exactly one search request, for the query current at the expiry.
C25_Debounce ==
    [][/\ Cardinality(browser'.timers) <= 1
       /\ \A q \in SearchQueries :
             Input(q) /\ Trim(q) # <<>>
                => /\ browser'.timers = {ui'.searchTimeout}
                   /\ browser'.http = browser.http
       /\ \A h \in 1..MaxTimers :
             TimerFire(h) /\ Trim(ui.searchQuery) # <<>>
                => /\ browser'.timers = {}
                   /\ Len(browser'.http) = Len(browser.http) + 1
                   /\ SubSeq(browser'.http, 1, Len(browser.http))
                         = [i \in DOMAIN browser.http |->
                               [browser.http[i] EXCEPT
                                   !.superseded = browser'.http[i].superseded]]
                   /\ browser'.http[Len(browser'.http)].kind = "search"
                   /\ browser'.http[Len(browser'.http)].query
                         = Trim(ui.searchQuery)]_vars

\* after a burst of input events the one search on the wire carries the
\* trimmed query of the last event
C25_Witness ==
    /\ ui.searchQuery = <<" ", "b">>
    /\ browser.timers = {}
    /\ Len(browser.http) = 1
    /\ browser.http[1].kind = "search"
    /\ browser.http[1].query = <<"b">>
    /\ browser.http[1].state = "sent"

\* the answer delivered by the step is the one of a search exchange
SearchDelivered(i) ==
    /\ Deliver(i)
    /\ browser.http[i].kind = "search"

\* C27: once the query has been emptied or cleared while a search is in
\* flight, the displayed list is the full list after the answer of that
\* search has been delivered.
C27_LateAnswerKeepsShowAll ==
    [][\A i \in 1..MaxInFlight :
          /\ SearchDelivered(i)
          /\ Len(browser.http) = 1
          /\ Trim(ui.searchQuery) = <<>>
          /\ ui.filteredEmployees = ui.employees
          => ui'.filteredEmployees = ui'.employees]_vars

\* C28: with two searches for different queries in flight, the displayed
\* list after both answers is the result of the query sent last: the answer
\* of a superseded search that arrives after the answer of the last one
\* leaves the displayed list alone.
C28_LastQueryWins ==
    [][\A i \in 1..MaxInFlight :
          /\ SearchDelivered(i)
          /\ browser.http[i].superseded
          /\ browser.http[i].query # Trim(ui.searchQuery)
          /\ Trim(ui.searchQuery) # <<>>
          /\ browser.timers = {}
          /\ \A j \in DOMAIN browser.http :
                j # i => browser.http[j].kind # "search"
          => ui'.filteredEmployees = ui.filteredEmployees]_vars

(***************************************************************************)
(* The modals.                                                             *)
(***************************************************************************)

\* the list s with every entry of the given id replaced by data
ReplaceId(s, id, data) ==
    [i \in DOMAIN s |-> IF s[i].id = id THEN data ELSE s[i]]

\* the step delivers the server's confirmation of an exchange of that kind
Confirmed(i, kind) ==
    /\ Deliver(i)
    /\ browser.http[i].kind = kind
    /\ browser.http[i].status = 200

\* C29: when a delete or an update is confirmed, the local entry removed
\* or replaced is the one of the id sent in the request, whatever modals
\* were opened or closed in between, and the handler reads no null
\* selectedEmployee.
C29_ConfirmedEntry ==
    [][\A i \in 1..MaxInFlight :
          /\ Confirmed(i, "delete") =>
                /\ browser'.typeError = browser.typeError
                /\ ui'.employees
                      = FilterOutId(ui.employees, browser.http[i].id)
          /\ Confirmed(i, "update") =>
                /\ browser'.typeError = browser.typeError
                /\ ui'.employees
                      = ReplaceId(ui.employees, browser.http[i].id,
                                  browser.http[i].rows[1])]_vars

\* the employee is one the search for the query returns
Matches(query, employee) ==
    GetEmployeesWhere([NoParams EXCEPT !.query = Some(query)], employee)

\* C30: with a non-blank query and neither a request nor a debounce
\* timeout pending, every displayed employee is one the search for that
\* query returns, also after an add, update or delete made while the
\* search is active.
C30_ListRestricted ==
    (/\ browser.started
     /\ Trim(ui.searchQuery) # <<>>
     /\ browser.http = <<>>
     /\ browser.timers = {})
        => \A employee \in Displayed : Matches(Trim(ui.searchQuery), employee)

====
